---- MODULE Spec2Model ----
(***************************************************************************)
(* A model of the pill-reminder schedule engine: the usePillSchedule hook  *)
(* over three useLocalStorage instances (pills, pill-logs,                 *)
(* last-schedule-date), the React render / effect cycle that drives the    *)
(* daily generation, the local clock, the persisted store with failing     *)
(* writes, and a second context that follows the store through storage     *)
(* events.                                                                 *)
(***************************************************************************)
EXTENDS Integers, Sequences, FiniteSets, TLC

\* ------------------------------------------------------------------ bounds
MaxDay == 1        \* the clock runs over the days 0..MaxDay
MaxOps == 2        \* calls of the hook's operations in one run
MaxStoreOps == 2   \* the same, in the runs with failing writes and a second context
MaxFail == 1       \* storage writes that fail in such a run
MaxEvents == 2     \* storage events in flight to the second context
MaxStreakDay == 3  \* the stored log histories span the days 0..MaxStreakDay
MaxHistory == 3    \* logs in a stored history
MaxHeatLogs == 2   \* logs in a stored history shown by the heatmap
DaysToShow == 3    \* the days of the heatmap window (the prop daysToShow)
MaxNotifyOps == 1  \* changes the user makes in a run of the scheduler
MaxAsking == 3     \* showNotification calls waiting for the permission answer
MaxKeyOps == 1     \* calls and foreign writes on the settings key in one run
MaxOneKeyOps == 3  \* calls made through the single instance
MaxTabOps == 2     \* calls made in the first of two contexts left open

\* --------------------------------------------------------------- constants
NoDate == -1       \* the initial last-schedule-date, ''
Absent == <<>>     \* an optional field that is not set; a key not stored

VARIABLES
  now,        \* the local wall clock, a Date
  nextId,     \* uuid counter: the next fresh id
  pills,      \* storedValue of useLocalStorage('pills'), as last set
  logs,       \* storedValue of useLocalStorage('pill-logs'), as last set
  lastScheduleDate, \* storedValue of useLocalStorage('last-schedule-date')
  rPills,     \* pills as captured by the closures of the last render
  rLogs,      \* logs as captured by the closures of the last render
  rLast,      \* lastScheduleDate as captured by the last render
  dirty,      \* a setStoredValue happened since the last render
  effectDue,  \* the generation effect of the last render has not run yet
  store,      \* window.localStorage: key -> <<value>> or Absent
  failsLeft,  \* storage writes that can still fail
  opsLeft,    \* calls of the hook's operations still offered
  tab2,       \* a second context is open on the same store
  events,     \* storage events not yet handled by the second context
  obs,        \* the second context's storedValue per key
  lastOp,     \* the last call of an operation of the hook: name, id, argument
  tz,         \* the offset of the local time from UTC, in hours
  mounted,    \* the App component, with its useNotifications hook, is mounted
  permission, \* the permission state of useNotifications
  browserPermission, \* Notification.permission, as the browser holds it
  intensity,  \* settings.notificationIntensity
  schedDue,   \* the scheduling effect of App has to run (a dependency changed)
  timers,     \* the armed timers of window.setTimeout
  nextTimer,  \* the id the next setTimeout returns
  scheduledNotifications, \* the ref of useNotifications: pill id -> timer ids
  asking,     \* showNotification calls waiting for the permission answer
  shown,      \* the notifications the platform displays, one per tag
  delivered,  \* the number of notifications handed to the platform
  warned,     \* the last step of the scheduler logged a warning
  settingsItem, \* the text localStorage holds under the settings key, or Absent
  held,       \* storedValue of each useLocalStorage instance of that key
  seen,       \* storedValue as captured by the instance's last render
  inbox,      \* storage events in flight to each context
  logged,     \* the last step logged an error with console.error
  pillsItem,  \* the text localStorage holds under the pills key of usePills
  upPills,    \* the pills state of usePills, once it is mounted
  crashed,    \* an exception escaped from a hook
  effectDue2, \* the second context rendered and its generation effect has to run
  eventsBack  \* storage events not yet handled by the first context

vars == <<now, nextId, pills, logs, lastScheduleDate, rPills, rLogs, rLast,
          dirty, effectDue, store, failsLeft, opsLeft, tab2, events, obs,
          lastOp, tz, mounted, permission, browserPermission, intensity,
          schedDue, timers, nextTimer, scheduledNotifications, asking, shown,
          delivered, warned, settingsItem, held, seen, inbox, logged, pillsItem,
          upPills, crashed, effectDue2, eventsBack>>

\* The state of the notification scheduler
notifVars == <<mounted, permission, browserPermission, intensity, schedDue,
               timers, nextTimer, scheduledNotifications, asking, shown,
               delivered, warned>>

\* What the schedule hook and the store never change
\* The instances of useLocalStorage on the settings key
keyVars == <<settingsItem, held, seen, inbox, logged, pillsItem, upPills, crashed>>

\* The hook of the second context
tabVars == <<effectDue2, eventsBack>>

others == <<tz, notifVars, keyVars, tabVars>>

Keys == {"pills", "pill-logs", "last-schedule-date"}

\* ------------------------------------------------------------------- time
\* A Date is [day, hour, minute, second, ms] in local time; day counts
\* calendar days.  The instants the clock can show:
ClockTimes ==
  { [day |-> d, hour |-> t[1], minute |-> t[2], second |-> t[3], ms |-> t[4]] :
      d \in 0..MaxDay, t \in {<<9, 0, 0, 0>>, <<23, 50, 30, 500>>} }

Before(a, b) ==
  <<a.day, a.hour, a.minute, a.second, a.ms>> # <<b.day, b.hour, b.minute, b.second, b.ms>>
  /\ \/ a.day < b.day
     \/ a.day = b.day /\ a.hour * 60 + a.minute < b.hour * 60 + b.minute
     \/ a.day = b.day /\ a.hour * 60 + a.minute = b.hour * 60 + b.minute
        /\ a.second * 1000 + a.ms < b.second * 1000 + b.ms

\* Date.prototype.toDateString(): the calendar day, without the time of day
toDateString(d) == d.day

\* format(date, 'yyyy-MM-dd HH:mm:ss'): the milliseconds are dropped
formatDateTime(d) == <<d.day, d.hour, d.minute, d.second>>

\* Date.prototype.setHours(hours, minutes, 0, 0), with the carry into the day
setHours(d, hours, minutes) ==
  LET tot == hours * 60 + minutes
  IN  [day |-> d.day + (tot \div 1440), hour |-> (tot % 1440) \div 60,
       minute |-> tot % 60, second |-> 0, ms |-> 0]

\* Faulty variant: setMinutes that wraps the minutes and drops the carry
setMinutesNoCarry(d, minutes) == [d EXCEPT !.minute = minutes % 60]

\* Date.prototype.setMinutes(minutes), with the carry into hour and day
setMinutes(d, minutes) ==
  LET tot == d.hour * 60 + minutes
  IN  [d EXCEPT !.day = d.day + (tot \div 1440),
                !.hour = (tot % 1440) \div 60,
                !.minute = tot % 60]

\* Faulty variant: setHours(hours, minutes): seconds and milliseconds are kept
parseTimeStringKeepSeconds(timeStr) ==
  [setHours(now, timeStr[1], timeStr[2]) EXCEPT !.second = now.second, !.ms = now.ms]

\* parseTimeString("HH:mm"): today at that time of day; a time string is
\* modelled by its two numbers <<hours, minutes>>
parseTimeString(timeStr) == setHours(now, timeStr[1], timeStr[2])

\* ------------------------------------------------------------------ inputs
\* The times of a pill added in a run (the pill of an earlier session has
\* two different times), and the snooze lengths
TimesChoices == {<<<<21, 30>>, <<21, 30>>>>}
SnoozeChoices == {15}

\* --------------------------------------------------- the persisted store
\* One call of window.localStorage.setItem(key, JSON.stringify(value)): it
\* throws (ok = FALSE) or stores the value.  A write is [key, value, ok].
setItem(s, w) == IF w.ok THEN [s EXCEPT ![w.key] = <<w.value>>] ELSE s

\* The storage event the other contexts receive: only when the stored value
\* of the key changed
storageEvent(s, w) ==
  IF tab2 /\ w.ok /\ s[w.key] # <<w.value>>
  THEN <<[key |-> w.key, newValue |-> w.value]>>
  ELSE <<>>

failed(w) == IF w.ok THEN 0 ELSE 1

\* The outcomes a write can have: it can fail while failures remain
OkChoices == IF failsLeft > 0 THEN BOOLEAN ELSE {TRUE}

\* The store, the events in flight and the failures left after the writes
\* of one handler, in the order the handler makes them
Persist1(w1) ==
  /\ store' = setItem(store, w1)
  /\ events' = events \o storageEvent(store, w1)
  /\ failsLeft' = failsLeft - failed(w1)
  /\ Len(events') <= MaxEvents

Persist2(w1, w2) ==
  /\ store' = setItem(setItem(store, w1), w2)
  /\ events' = events \o storageEvent(store, w1)
                      \o storageEvent(setItem(store, w1), w2)
  /\ failsLeft' = failsLeft - failed(w1) - failed(w2)
  /\ failsLeft' >= 0
  /\ Len(events') <= MaxEvents

\* ---------------------------------------------------------------- helpers
\* { ...object, ...updates }: the fields of updates override
Spread(object, updates) ==
  [f \in (DOMAIN object) \cup (DOMAIN updates) |->
     IF f \in DOMAIN updates THEN updates[f] ELSE object[f]]

\* ------------------------------------------------------------------- Init
\* What 'pills' can hold when the hook mounts: nothing, or one pill stored
\* by an earlier session
StoredPills ==
  {Absent, <<<<[id |-> 1, name |-> "A", times |-> <<<<9, 0>>, <<21, 30>>>>]>>>>}

\* useState(() => item ? JSON.parse(item) : initialValue)
initialState(item, initialValue) == IF item # Absent THEN item[1] ELSE initialValue

\* The hook on its own, without the App component and its scheduler
\* The contexts (windows) on the store, and the useLocalStorage instances of
\* the settings key: two in the first context, one in the second
Contexts == {"a", "b"}
Instances == {1, 2, 3}
contextOf(i) == IF i = 3 THEN "b" ELSE "a"

\* No instance of the settings key is mounted
\* The second context runs no hook of its own
NoSecondHook == effectDue2 = FALSE /\ eventsBack = <<>>

NoKey ==
  /\ settingsItem = Absent
  /\ held = [i \in Instances |-> Absent] /\ seen = held
  /\ inbox = [c \in Contexts |-> <<>>]
  /\ logged = FALSE /\ crashed = FALSE
  /\ pillsItem = Absent /\ upPills = Absent

NoScheduler ==
  /\ mounted = FALSE /\ schedDue = FALSE
  /\ permission = "denied" /\ browserPermission = "denied"
  /\ intensity = "normal"
  /\ timers = {} /\ nextTimer = 1 /\ scheduledNotifications = {}
  /\ asking = <<>> /\ shown = {} /\ delivered = 0 /\ warned = FALSE

InitHook ==
  /\ now = [day |-> 0, hour |-> 9, minute |-> 0, second |-> 0, ms |-> 0]
  /\ \E stored \in StoredPills :
       store = [k \in Keys |-> IF k = "pills" THEN stored ELSE Absent]
  /\ pills = initialState(store["pills"], <<>>)
  /\ logs = initialState(store["pill-logs"], <<>>)
  /\ lastScheduleDate = initialState(store["last-schedule-date"], NoDate)
  /\ rPills = pills /\ rLogs = logs /\ rLast = lastScheduleDate
  /\ nextId = Len(pills) + 1
  /\ dirty = FALSE
  /\ effectDue = TRUE
  /\ events = <<>>
  /\ obs = [k \in Keys |-> <<CASE k = "pills" -> pills
                               [] k = "pill-logs" -> logs
                               [] OTHER -> lastScheduleDate>>]
  /\ lastOp = [name |-> "mount", id |-> 0, arg |-> 0]
  /\ tz = 0
  /\ NoScheduler /\ NoKey /\ NoSecondHook

\* One context, on a store whose writes succeed
Init == InitHook /\ opsLeft = MaxOps /\ failsLeft = 0 /\ tab2 = FALSE

\* A second context follows the store, and writes can fail
InitStore ==
  InitHook /\ opsLeft = MaxStoreOps /\ failsLeft = MaxFail /\ tab2 = TRUE

\* The log histories a session can find stored.  An entry is a log scheduled
\* on day s that is missed, or taken on day t, not before s; the hook appends
\* the logs of each day behind those of the days before
HistoryEntries ==
  { [s |-> s, status |-> "taken", t |-> t] :
      s \in 0..MaxStreakDay, t \in 0..MaxStreakDay } \cup
  { [s |-> s, status |-> "missed", t |-> s] : s \in 0..MaxStreakDay }

Histories ==
  { h \in UNION { [1..n -> HistoryEntries] : n \in 0..MaxHistory } :
      /\ \A i \in DOMAIN h : h[i].s <= h[i].t
      /\ \A i \in DOMAIN h : i < Len(h) => h[i].s <= h[i + 1].s }

HistoryLogs(h) ==
  [i \in DOMAIN h |->
     [id |-> i, pillId |-> 1,
      scheduledTime |-> <<h[i].s, 9, 0, 0>>,
      status |-> h[i].status,
      takenTime |-> IF h[i].status = "taken" THEN <<h[i].t, 23, 50, 30>> ELSE Absent,
      snoozedUntil |-> Absent]]

\* A session that mounts on the store of earlier sessions: one pill, a log
\* history of hs, and the marker of the last day of that history; the clock
\* shows that day or one of the two days after it, in one of the time zones
InitOnHistory(hs, zones) ==
  /\ \E d \in MaxStreakDay..(MaxStreakDay + 2) :
       now = [day |-> d, hour |-> 9, minute |-> 0, second |-> 0, ms |-> 0]
  /\ \E stored \in StoredPills \ {Absent}, h \in hs :
       store = [k \in Keys |-> CASE k = "pills" -> stored
                                 [] k = "pill-logs" -> <<HistoryLogs(h)>>
                                 [] OTHER -> <<MaxStreakDay>>]
  /\ pills = initialState(store["pills"], <<>>)
  /\ logs = initialState(store["pill-logs"], <<>>)
  /\ lastScheduleDate = initialState(store["last-schedule-date"], NoDate)
  /\ rPills = pills /\ rLogs = logs /\ rLast = lastScheduleDate
  /\ nextId = Len(pills) + Len(logs) + 1
  /\ dirty = FALSE
  /\ effectDue = TRUE
  /\ events = <<>>
  /\ obs = [k \in Keys |-> <<CASE k = "pills" -> pills
                               [] k = "pill-logs" -> logs
                               [] OTHER -> lastScheduleDate>>]
  /\ lastOp = [name |-> "mount", id |-> 0, arg |-> 0]
  /\ opsLeft = 0 /\ failsLeft = 0 /\ tab2 = FALSE
  /\ tz \in zones
  /\ NoScheduler /\ NoKey /\ NoSecondHook

InitStreak == InitOnHistory(Histories, {0})

\* The offsets from UTC of the places the application runs in
TimeZones == {-5, 0, 1}

\* The application mounts, with its heatmap, on a short history
InitHeatmap ==
  InitOnHistory({h \in Histories : Len(h) <= MaxHeatLogs}, TimeZones)

\* ----------------------------------------------------------------- render
\* React re-renders the hook after a state change: the callbacks and the
\* effect of the new render capture the current values.
Render ==
  /\ dirty /\ ~effectDue
  /\ rPills' = pills /\ rLogs' = logs /\ rLast' = lastScheduleDate
  /\ dirty' = FALSE
  /\ effectDue' = TRUE
  /\ UNCHANGED <<now, nextId, pills, logs, lastScheduleDate, store, failsLeft,
                 opsLeft, tab2, events, obs, lastOp, others>>

\* ------------------------------------------------------- daily generation
\* Faulty variant: the pass fills in the day after the last pass
LogsForPillBackfilled(pill, firstId) ==
  [k \in 1..Len(pill.times) |->
     [id |-> firstId + k - 1,
      pillId |-> pill.id,
      scheduledTime |->
        formatDateTime([parseTimeString(pill.times[k]) EXCEPT !.day = rLast + 1]),
      status |-> "pending",
      takenTime |-> Absent,
      snoozedUntil |-> Absent]]

\* The logs the effect builds for one pill, ids taken from firstId on
LogsForPill(pill, firstId) ==
  [k \in 1..Len(pill.times) |->
     [id |-> firstId + k - 1,
      pillId |-> pill.id,
      scheduledTime |-> formatDateTime(parseTimeString(pill.times[k])),
      status |-> "pending",
      takenTime |-> Absent,
      snoozedUntil |-> Absent]]

RECURSIVE NewLogs(_, _)
NewLogs(ps, firstId) ==
  IF ps = <<>> THEN <<>>
  ELSE LogsForPill(Head(ps), firstId)
         \o NewLogs(Tail(ps), firstId + Len(Head(ps).times))

\* Faulty variant: the pass runs whenever the effect runs
GenerationDueAlways(last, today) == TRUE

\* The generation condition of the effect
GenerationDue(last, today) == last # today

GenerateDailyLogs ==
  /\ effectDue
  /\ effectDue' = FALSE
  /\ UNCHANGED <<lastOp, others>>
  /\ LET today == toDateString(now)
         newLogs == NewLogs(rPills, nextId)
     IN IF GenerationDue(rLast, today)
        THEN /\ logs' = rLogs \o newLogs
             /\ lastScheduleDate' = today
             /\ nextId' = nextId + Len(newLogs)
             /\ dirty' = TRUE
             /\ \E ok1 \in OkChoices, ok2 \in OkChoices :
                  Persist2([key |-> "pill-logs", value |-> logs', ok |-> ok1],
                           [key |-> "last-schedule-date", value |-> today, ok |-> ok2])
             /\ UNCHANGED <<now, pills, rPills, rLogs, rLast, opsLeft, tab2, obs>>
        ELSE UNCHANGED <<now, nextId, pills, logs, lastScheduleDate, rPills,
                         rLogs, rLast, dirty, store, failsLeft, opsLeft, tab2,
                         events, obs>>

\* ------------------------------------------------------- pill operations
\* What every operation of the hook does besides its own state change: it
\* runs in an event handler (after the effects of the last render), and the
\* state change schedules a render
Call(name, id, arg) ==
  /\ ~effectDue
  /\ opsLeft > 0
  /\ opsLeft' = opsLeft - 1
  /\ dirty' = TRUE
  /\ lastOp' = [name |-> name, id |-> id, arg |-> arg]
  /\ UNCHANGED <<now, rPills, rLogs, rLast, effectDue, tab2, obs, others>>

AddedPills(ps, id, name, times) ==
  Append(ps, [id |-> id, name |-> name, times |-> times])

\* Faulty variant: addPill also schedules the new pill for today
AddPillAndSchedule(name, times) ==
  /\ Call("addPill", nextId, 0)
  /\ pills' = AddedPills(rPills, nextId, name, times)
  /\ logs' = rLogs \o LogsForPill(pills'[Len(pills')], nextId + 1)
  /\ nextId' = nextId + 1 + Len(times)
  /\ \E ok \in OkChoices : Persist1([key |-> "pills", value |-> pills', ok |-> ok])
  /\ UNCHANGED lastScheduleDate

AddPill(name, times) ==
  /\ Call("addPill", nextId, 0)
  /\ pills' = AddedPills(rPills, nextId, name, times)
  /\ nextId' = nextId + 1
  /\ \E ok \in OkChoices : Persist1([key |-> "pills", value |-> pills', ok |-> ok])
  /\ UNCHANGED <<logs, lastScheduleDate>>

\* Faulty variant: the updates are merged into every pill
UpdatedPillsAll(ps, id, updates) ==
  [i \in DOMAIN ps |-> Spread(ps[i], updates)]

\* prev.map(pill => pill.id === id ? { ...pill, ...updates } : pill)
UpdatedPills(ps, id, updates) ==
  [i \in DOMAIN ps |-> IF ps[i].id = id THEN Spread(ps[i], updates) ELSE ps[i]]

UpdatePill(id, updates) ==
  /\ Call("updatePill", id, 0)
  /\ pills' = UpdatedPills(rPills, id, updates)
  /\ \E ok \in OkChoices : Persist1([key |-> "pills", value |-> pills', ok |-> ok])
  /\ UNCHANGED <<nextId, logs, lastScheduleDate>>

PillsWithout(ps, id) == SelectSeq(ps, LAMBDA pill : pill.id # id)

\* Faulty variant: the filter compares the log's own id
LogsWithoutLogId(ls, id) == SelectSeq(ls, LAMBDA log : log.id # id)

LogsWithout(ls, id) == SelectSeq(ls, LAMBDA log : log.pillId # id)

DeletePill(id) ==
  /\ Call("deletePill", id, 0)
  /\ pills' = PillsWithout(rPills, id)
  /\ logs' = LogsWithout(rLogs, id)
  /\ \E ok1 \in OkChoices, ok2 \in OkChoices :
       Persist2([key |-> "pills", value |-> pills', ok |-> ok1],
                [key |-> "pill-logs", value |-> logs', ok |-> ok2])
  /\ UNCHANGED <<nextId, lastScheduleDate>>

\* -------------------------------------------------------- log operations
\* { ...log, status: 'taken', takenTime: formatDateTime(new Date()) }
TakenLog(log) ==
  [log EXCEPT !.status = "taken", !.takenTime = formatDateTime(now)]

\* { ...log, status: 'snoozed', snoozedUntil: formatDateTime(snoozeUntil) }
SnoozedLog(log, snoozeMinutes) ==
  [log EXCEPT !.status = "snoozed",
              !.snoozedUntil =
                 formatDateTime(setMinutes(now, now.minute + snoozeMinutes))]

\* { ...log, status: 'missed' }
MissedLog(log) == [log EXCEPT !.status = "missed"]

\* setLogs(prev => ...) of a log operation, and its write
SetLogs(newLogs) ==
  /\ logs' = newLogs
  /\ \E ok \in OkChoices : Persist1([key |-> "pill-logs", value |-> logs', ok |-> ok])
  /\ UNCHANGED <<nextId, pills, lastScheduleDate>>

\* prev.map(log => log.id === logId ? ... : log), for each of the three
MarkPillTaken(logId) ==
  /\ Call("markPillTaken", logId, 0)
  /\ SetLogs([i \in DOMAIN rLogs |->
                IF rLogs[i].id = logId THEN TakenLog(rLogs[i]) ELSE rLogs[i]])

SnoozePill(logId, snoozeMinutes) ==
  /\ Call("snoozePill", logId, snoozeMinutes)
  /\ SetLogs([i \in DOMAIN rLogs |->
                IF rLogs[i].id = logId THEN SnoozedLog(rLogs[i], snoozeMinutes)
                ELSE rLogs[i]])

MarkPillMissed(logId) ==
  /\ Call("markPillMissed", logId, 0)
  /\ SetLogs([i \in DOMAIN rLogs |->
                IF rLogs[i].id = logId THEN MissedLog(rLogs[i]) ELSE rLogs[i]])

\* ---------------------------------------------------------------- queries
\* Faulty variant: the snoozed logs are left out
getPendingLogsNoSnoozed(ls) == SelectSeq(ls, LAMBDA log : log.status = "pending")

\* logs.filter(log => log.status === 'pending' || log.status === 'snoozed')
getPendingLogs(ls) ==
  SelectSeq(ls, LAMBDA log : log.status = "pending" \/ log.status = "snoozed")

\* new Date('yyyy-MM-dd HH:mm:ss'): the stamp read back as a local time
parseDate(stamp) ==
  [day |-> stamp[1], hour |-> stamp[2], minute |-> stamp[3],
   second |-> stamp[4], ms |-> 0]

\* Faulty variant: the day of the last generation pass stands for today
getTodayLogsByMarker(ls) ==
  SelectSeq(ls, LAMBDA log :
    toDateString(parseDate(log.scheduledTime)) = lastScheduleDate)

\* logs.filter(log => new Date(log.scheduledTime).toDateString() === today)
getTodayLogs(ls) ==
  SelectSeq(ls, LAMBDA log :
    toDateString(parseDate(log.scheduledTime)) = toDateString(now))

\* ---------------------------------------------------------------- streaks
\* new Date(stamp).getTime(), counted in seconds
getTime(stamp) == ((stamp[1] * 24 + stamp[2]) * 60 + stamp[3]) * 60 + stamp[4]

\* Array.prototype.sort on a list of <<key, item>> pairs, ascending by key;
\* the sort is stable: an item goes behind the items whose key is not larger
RECURSIVE sort(_)
sort(s) ==
  IF s = <<>> THEN <<>>
  ELSE LET sorted == sort(SubSeq(s, 1, Len(s) - 1))
           x == s[Len(s)]
           k == Cardinality({i \in DOMAIN sorted : sorted[i][1] <= x[1]})
       IN  SubSeq(sorted, 1, k) \o <<x>> \o SubSeq(sorted, k + 1, Len(sorted))

\* Faulty variant: the taken entries are left in the order of the list
TakenInListOrder(ls) ==
  SelectSeq(ls, LAMBDA log : log.status = "taken" /\ log.takenTime # Absent)

\* logs.filter(log => log.status === 'taken' && log.takenTime)
\*     .sort((a, b) => getTime(b.takenTime) - getTime(a.takenTime))
TakenByTakenTimeDesc(ls) ==
  LET taken == SelectSeq(ls, LAMBDA log :
                 log.status = "taken" /\ log.takenTime # Absent)
      sorted == sort([i \in DOMAIN taken |-> <<0 - getTime(taken[i].takenTime), taken[i]>>])
  IN  [i \in DOMAIN sorted |-> sorted[i][2]]

\* date-fns startOfDay
startOfDay(d) == [d EXCEPT !.hour = 0, !.minute = 0, !.second = 0, !.ms = 0]

\* date-fns differenceInDays(a, b): the full days from b to a
differenceInDays(a, b) ==
  LET tod(d) == ((d.hour * 60 + d.minute) * 60 + d.second) * 1000 + d.ms
      diff == a.day - b.day
  IN  IF diff > 0 /\ tod(a) < tod(b) THEN diff - 1
      ELSE IF diff < 0 /\ tod(a) > tod(b) THEN diff + 1
      ELSE diff

\* The for loop of calculateStreak from index i on (indices from 1)
RECURSIVE StreakLoop(_, _, _, _)
StreakLoop(sortedLogs, i, streak, currentDay) ==
  IF i > Len(sortedLogs) THEN streak
  ELSE LET logDay == startOfDay(parseDate(sortedLogs[i].takenTime))
           dayDiff == differenceInDays(currentDay, logDay)
       IN  IF dayDiff = 1 THEN StreakLoop(sortedLogs, i + 1, streak + 1, logDay)
           ELSE IF dayDiff > 1 THEN streak
           ELSE StreakLoop(sortedLogs, i + 1, streak, currentDay)

\* Faulty variant: a second entry on the same date ends the count
calculateStreakNoSameDay(ls) ==
  LET sortedLogs == TakenByTakenTimeDesc(ls)
      day(i) == toDateString(parseDate(sortedLogs[i].takenTime))
      run == {n \in DOMAIN sortedLogs :
                \A i \in 2..n : day(i - 1) - day(i) = 1}
  IN  IF sortedLogs = <<>> THEN 0 ELSE Cardinality(run)

calculateStreak(ls) ==
  IF Len(ls) = 0 THEN 0
  ELSE LET sortedLogs == TakenByTakenTimeDesc(ls)
       IN  IF Len(sortedLogs) = 0 THEN 0
           ELSE StreakLoop(sortedLogs, 2, 1,
                           startOfDay(parseDate(sortedLogs[1].takenTime)))

\* Math.max(...)
Max(S) == CHOOSE x \in S : \A y \in S : y <= x

\* Faulty variant: the current streak lapses when the most recent taken
\* entry is older than yesterday
streakDataLapsing(ls) ==
  LET sortedLogs == TakenByTakenTimeDesc(ls)
      lapsed == sortedLogs # <<>> /\
                toDateString(now) - toDateString(parseDate(sortedLogs[1].takenTime)) > 1
      currentStreak == IF lapsed THEN 0 ELSE calculateStreak(ls)
  IN  [current |-> currentStreak,
       best |-> Max({calculateStreak(ls), 0}),
       lastTaken |-> IF sortedLogs = <<>> THEN Absent ELSE sortedLogs[1].takenTime]

\* The useMemo of usePillSchedule: current, best and lastTaken of a log list
streakData(ls) ==
  LET currentStreak == calculateStreak(ls)
      takenLogs == SelectSeq(ls, LAMBDA log : log.status = "taken")
      allStreaks == {calculateStreak(SubSeq(takenLogs, 1, idx)) : idx \in DOMAIN takenLogs}
      sortedLogs == TakenByTakenTimeDesc(ls)
  IN  [current |-> currentStreak,
       best |-> Max({currentStreak, 0} \cup allStreaks),
       lastTaken |-> IF sortedLogs = <<>> THEN Absent ELSE sortedLogs[1].takenTime]

\* [...logs].sort((a, b) => getTime(a.scheduledTime) - getTime(b.scheduledTime))
ByScheduledTime(ls) ==
  LET sorted == sort([i \in DOMAIN ls |-> <<getTime(ls[i].scheduledTime), ls[i]>>])
  IN  [i \in DOMAIN sorted |-> sorted[i][2]]

\* One turn of the for loop of useStreak; acc is [tempStreak, bestStreak,
\* lastDate], lastDate a one-element tuple <<day>>, or Absent for null
UseStreakStep(acc, log) ==
  IF log.status = "taken"
  THEN LET logDate == toDateString(parseDate(log.scheduledTime))
           daysDiff == IF acc.lastDate = Absent THEN 0 ELSE logDate - acc.lastDate[1]
           tempStreak == IF acc.lastDate = Absent THEN 1
                         ELSE IF daysDiff = 0 THEN acc.tempStreak
                         ELSE IF daysDiff = 1 THEN acc.tempStreak + 1
                         ELSE 1
       IN  [tempStreak |-> tempStreak,
            bestStreak |-> Max({acc.bestStreak, tempStreak}),
            lastDate |-> <<logDate>>]
  ELSE IF log.status = "missed" THEN [acc EXCEPT !.tempStreak = 0]
  ELSE acc

RECURSIVE UseStreakLoop(_, _)
UseStreakLoop(sortedLogs, n) ==
  IF n = 0 THEN [tempStreak |-> 0, bestStreak |-> 0, lastDate |-> Absent]
  ELSE UseStreakStep(UseStreakLoop(sortedLogs, n - 1), sortedLogs[n])

\* The useStreak hook: the StreakData of a log list at the current time
useStreak(ls) ==
  IF Len(ls) = 0 THEN [current |-> 0, best |-> 0, lastTaken |-> Absent]
  ELSE LET acc == UseStreakLoop(ByScheduledTime(ls), Len(ls))
           daysSinceLastTaken == toDateString(now) - acc.lastDate[1]
           byTaken == TakenByTakenTimeDesc(ls)
       IN  [current |-> IF acc.lastDate # Absent /\ daysSinceLastTaken <= 1
                        THEN acc.tempStreak ELSE 0,
            best |-> acc.bestStreak,
            lastTaken |-> IF byTaken = <<>> THEN Absent ELSE byTaken[1].takenTime]

\* ---------------------------------------------------------------- heatmap
\* date.toISOString().split('T')[0]: the calendar date, in UTC, of the
\* instant a local Date stands for (\div rounds down)
toISODate(d) == (d.day * 1440 + d.hour * 60 + d.minute - tz * 60) \div 1440

\* (taken / total) * 100, kept as the fraction num / den; 0 is 0 / 1
Percent(taken, total) ==
  IF total > 0 THEN [num |-> taken * 100, den |-> total] ELSE [num |-> 0, den |-> 1]

CountStatus(ls, status) == Cardinality({i \in DOMAIN ls : ls[i].status = status})

\* The useMemo of ComplianceHeatmap: one DayData per day of the window, the
\* oldest day first
heatmapData(ls, daysToShow) ==
  [n \in 1..daysToShow |->
     LET i == daysToShow - n
         today == setHours(now, 0, 0)
         date == [today EXCEPT !.day = today.day - i]
         dateStr == toISODate(date)
         dayLogs == SelectSeq(ls, LAMBDA log :
                      toISODate(parseDate(log.scheduledTime)) = dateStr)
         taken == CountStatus(dayLogs, "taken")
         missed == CountStatus(dayLogs, "missed")
         total == taken + missed
     IN  [date |-> date, dateStr |-> dateStr, taken |-> taken, missed |-> missed,
          total |-> total, compliance |-> Percent(taken, total)]]

\* getColorClass(compliance, hasData); compliance >= k is num >= k * den
getColorClass(compliance, hasData) ==
  IF ~hasData THEN "bg-gray-700"
  ELSE IF compliance.num = 100 * compliance.den THEN "bg-green-500"
  ELSE IF compliance.num >= 80 * compliance.den THEN "bg-green-400"
  ELSE IF compliance.num >= 60 * compliance.den THEN "bg-yellow-500"
  ELSE IF compliance.num >= 40 * compliance.den THEN "bg-orange-500"
  ELSE IF compliance.num > 0 THEN "bg-red-500"
  ELSE "bg-red-700"

\* The colour class of the cell of a day: hasData = day.total > 0
CellClass(day) == getColorClass(day.compliance, day.total > 0)

\* ------------------------------------------------------------ environment
\* Time passes: the clock shows a later instant.  A render and its effect
\* run in one task, so no time is let pass between the two.
Tick ==
  /\ ~effectDue
  /\ \E t \in ClockTimes : Before(now, t) /\ now' = t
  /\ UNCHANGED <<nextId, pills, logs, lastScheduleDate, rPills, rLogs, rLast,
                 dirty, effectDue, store, failsLeft, opsLeft, tab2, events, obs,
                 lastOp, others>>

\* The second context handles the oldest storage event in flight
HandleStorageChange ==
  /\ events # <<>>
  /\ LET e == Head(events)
     IN obs' = [obs EXCEPT ![e.key] = <<e.newValue>>]
  /\ events' = Tail(events)
  /\ UNCHANGED <<now, nextId, pills, logs, lastScheduleDate, rPills, rLogs,
                 rLast, dirty, effectDue, store, failsLeft, opsLeft, tab2,
                 lastOp, others>>

\* ---------------------------------------------------------- notifications
Intensities == {"quiet", "normal", "loud"}
Permissions == {"granted", "denied", "default"}

\* Date.prototype.getTime(), in milliseconds
epochMs(d) == (((d.day * 24 + d.hour) * 60 + d.minute) * 60 + d.second) * 1000 + d.ms

\* Faulty variant: the tag names the day and not the time
TagOfDay(pillName, scheduledTime) == <<"pill", pillName, scheduledTime.day>>

\* 'pill-' + pillName + '-' + scheduledTime.getTime(): the parts of the string
Tag(pillName, scheduledTime) == <<"pill", pillName, epochMs(scheduledTime)>>

\* The call showNotification('Time to take ' + pillName, {body, intensity, tag})
\* of scheduleNotification, as it waits for the permission answer
Request(pillName, scheduledTime, level) ==
  [title |-> pillName,
   options |-> [body |-> "Tap to confirm", intensity |-> level,
                tag |-> Tag(pillName, scheduledTime)]]

\* const { intensity = 'normal', ...notificationOptions } = options
IntensityOf(options) ==
  IF "intensity" \in DOMAIN options THEN options.intensity ELSE "normal"

\* Faulty variant: the caller's options are spread last
NotifOptionsCallerWins(options) ==
  LET notificationOptions == [k \in DOMAIN options \ {"intensity"} |-> options[k]]
      level == IntensityOf(options)
      pattern == IF level = "loud" THEN <<200, 100, 200, 100, 200>>
                 ELSE <<200, 100, 200>>
      given == notificationOptions @@ ("requireInteraction" :> TRUE)
                 @@ ("silent" :> (level = "quiet"))
  IN  IF level # "quiet" THEN given @@ ("vibrate" :> pattern) ELSE given

\* The notifOptions showNotification builds: the caller's options, then
\* requireInteraction and silent, then vibrate unless the intensity is quiet
\* (in f @@ g the fields of f win)
NotifOptions(options) ==
  LET notificationOptions == [k \in DOMAIN options \ {"intensity"} |-> options[k]]
      level == IntensityOf(options)
      pattern == IF level = "loud" THEN <<200, 100, 200, 100, 200>>
                 ELSE <<200, 100, 200>>
      given == ("silent" :> (level = "quiet")) @@ ("requireInteraction" :> TRUE)
                 @@ notificationOptions
  IN  IF level # "quiet" THEN ("vibrate" :> pattern) @@ given ELSE given

\* The tag of a notification or of its options; a notification without one
\* has no tag to share
TagOf(notifOptions) ==
  IF "tag" \in DOMAIN notifOptions THEN notifOptions.tag ELSE Absent

\* new Notification(title, notifOptions): the platform displays it in the
\* place of a notification with the same tag
Display(ns, title, notifOptions) ==
  {n \in ns : TagOf(notifOptions) = Absent \/ TagOf(n.options) # TagOf(notifOptions)}
    \cup {[title |-> title, options |-> notifOptions]}

\* The scheduler's part of the state that its functions read and write
SchedulerState ==
  [timers |-> timers, nextTimer |-> nextTimer,
   scheduledNotifications |-> scheduledNotifications,
   asking |-> asking, warned |-> FALSE]

\* clearTimeout(timeoutId): an id that is not armed clears nothing
clearTimeout(ts, timeoutId) == {t \in ts : t.id # timeoutId}

\* Faulty variant: the guard on the id is all it does
cancelNotificationKeeps(ts, timeoutId) == ts

\* cancelNotification(timeoutId)
cancelNotification(ts, timeoutId) ==
  IF timeoutId >= 0 THEN clearTimeout(ts, timeoutId) ELSE ts

\* timeoutIds.forEach(cancelNotification)
RECURSIVE CancelEach(_, _)
CancelEach(ts, timeoutIds) ==
  IF timeoutIds = <<>> THEN ts
  ELSE CancelEach(cancelNotification(ts, Head(timeoutIds)), Tail(timeoutIds))

\* Faulty variant: a time that has passed is armed with a delay of 0
scheduleNotificationAlwaysArms(st, pillName, scheduledTime, level) ==
  [st |-> [st EXCEPT
             !.timers = @ \cup {[id |-> st.nextTimer, fireAt |-> scheduledTime,
                                 pillName |-> pillName, intensity |-> level]},
             !.nextTimer = @ + 1],
   ret |-> st.nextTimer]

\* scheduleNotification(pillName, scheduledTime, intensity): the state it
\* leaves and the id it returns
scheduleNotification(st, pillName, scheduledTime, level) ==
  LET delay == epochMs(scheduledTime) - epochMs(now)
  IN  IF delay <= 0
      THEN [st |-> [st EXCEPT !.asking =
                      Append(@, Request(pillName, scheduledTime, level))],
            ret |-> -1]
      ELSE [st |-> [st EXCEPT
                      !.timers = @ \cup {[id |-> st.nextTimer, fireAt |-> scheduledTime,
                                          pillName |-> pillName, intensity |-> level]},
                      !.nextTimer = @ + 1],
            ret |-> st.nextTimer]

\* The timer ids the ref holds for a pill id: Map.get, <<>> for undefined
TrackedFor(sn, pillId) ==
  IF \E e \in sn : e.pillId = pillId
  THEN (CHOOSE e \in sn : e.pillId = pillId).timeoutIds
  ELSE <<>>

\* Map.set(pillId, timeoutIds)
MapSet(sn, pillId, timeoutIds) ==
  {e \in sn : e.pillId # pillId} \cup {[pillId |-> pillId, timeoutIds |-> timeoutIds]}

\* pill.times.forEach(timeStr => ...) of scheduleForPill, from the k-th time
\* on: the state it leaves and the ids it has pushed
RECURSIVE ScheduleTimes(_, _, _, _, _)
ScheduleTimes(st, pill, level, k, timeoutIds) ==
  IF k > Len(pill.times) THEN [st |-> st, timeoutIds |-> timeoutIds]
  ELSE LET r == scheduleNotification(st, pill.name, parseTimeString(pill.times[k]), level)
       IN  ScheduleTimes(r.st, pill, level, k + 1,
                         IF r.ret >= 0 THEN Append(timeoutIds, r.ret) ELSE timeoutIds)

\* Faulty variant: the permission is not looked at
scheduleForPillUngated(st, pill, level) ==
  LET r == ScheduleTimes(st, pill, level, 1, <<>>)
  IN  [r.st EXCEPT !.scheduledNotifications = MapSet(@, pill.id, r.timeoutIds)]

\* scheduleForPill(pill, intensity)
scheduleForPill(st, pill, level) ==
  IF permission # "granted" THEN [st EXCEPT !.warned = TRUE]
  ELSE LET existingTimeouts == TrackedFor(st.scheduledNotifications, pill.id)
           cancelled == [st EXCEPT !.timers = CancelEach(@, existingTimeouts)]
           r == ScheduleTimes(cancelled, pill, level, 1, <<>>)
       IN  [r.st EXCEPT !.scheduledNotifications = MapSet(@, pill.id, r.timeoutIds)]

\* scheduledNotifications.current.forEach(timeoutIds =>
\*   timeoutIds.forEach(cancelNotification))
RECURSIVE CancelTracked(_, _)
CancelTracked(ts, sn) ==
  IF sn = {} THEN ts
  ELSE LET e == CHOOSE x \in sn : TRUE
       IN  CancelTracked(CancelEach(ts, e.timeoutIds), sn \ {e})

\* Faulty variant: the ref is cleared and the timers are left armed
cancelAllForgets(st) == [st EXCEPT !.scheduledNotifications = {}]

\* cancelAll()
cancelAll(st) ==
  [st EXCEPT
     !.timers = CancelTracked(@, st.scheduledNotifications),
     !.scheduledNotifications = {}]

\* pills.forEach(pill => scheduleForPill(pill, settings.notificationIntensity))
RECURSIVE ScheduleAll(_, _, _)
ScheduleAll(st, ps, level) ==
  IF ps = <<>> THEN st
  ELSE ScheduleAll(scheduleForPill(st, Head(ps), level), Tail(ps), level)

\* What the scheduler's actions leave alone
HookFrame ==
  UNCHANGED <<nextId, logs, lastScheduleDate, rPills, rLogs, rLast, dirty,
              effectDue, store, failsLeft, tab2, events, obs, lastOp, tz,
              keyVars, tabVars>>

SetScheduler(st) ==
  /\ timers' = st.timers
  /\ nextTimer' = st.nextTimer
  /\ scheduledNotifications' = st.scheduledNotifications
  /\ asking' = st.asking
  /\ warned' = st.warned
  /\ Len(asking') <= MaxAsking

\* The scheduling effect of App: the cleanup of its last run, then one
\* scheduleForPill per pill
RunSchedulingEffect ==
  /\ mounted /\ schedDue
  /\ schedDue' = FALSE
  /\ SetScheduler(ScheduleAll(cancelAll(SchedulerState), pills, intensity))
  /\ UNCHANGED <<now, pills, opsLeft, mounted, permission, browserPermission,
                 intensity, shown, delivered>>
  /\ HookFrame

\* An armed timer fires once its time is reached: its callback calls
\* showNotification
TimerFires ==
  /\ \E t \in timers :
       /\ epochMs(now) >= epochMs(t.fireAt)
       /\ timers' = timers \ {t}
       /\ asking' = Append(asking, Request(t.pillName, t.fireAt, t.intensity))
  /\ Len(asking') <= MaxAsking
  /\ warned' = FALSE
  /\ UNCHANGED <<now, pills, opsLeft, mounted, permission, browserPermission,
                 intensity, schedDue, nextTimer, scheduledNotifications, shown,
                 delivered>>
  /\ HookFrame

\* showNotification goes on after await requestNotificationPermission():
\* the browser answers with its permission, after asking the user when that
\* is 'default'
AnswerPermission ==
  /\ asking # <<>>
  /\ \E answer \in Permissions :
       /\ browserPermission # "default" => answer = browserPermission
       /\ browserPermission' = answer
       /\ IF answer = "granted"
          THEN /\ shown' = Display(shown, Head(asking).title, NotifOptions(Head(asking).options))
               /\ delivered' = delivered + 1
               /\ warned' = FALSE
          ELSE /\ UNCHANGED <<shown, delivered>>
               /\ warned' = TRUE
  /\ asking' = Tail(asking)
  /\ UNCHANGED <<now, pills, opsLeft, mounted, permission, intensity, schedDue,
                 timers, nextTimer, scheduledNotifications>>
  /\ HookFrame

\* The permission effect of App: the hook holds 'default', so
\* requestPermission() asks the user and keeps the answer; an answer of
\* 'default' leaves everything as it is
RequestPermission ==
  /\ mounted /\ ~schedDue
  /\ permission = "default" /\ browserPermission = "default"
  /\ \E answer \in {"granted", "denied"} :
       /\ browserPermission' = answer
       /\ permission' = answer
  /\ schedDue' = TRUE
  /\ warned' = FALSE
  /\ UNCHANGED <<now, pills, opsLeft, mounted, intensity, timers, nextTimer,
                 scheduledNotifications, asking, shown, delivered>>
  /\ HookFrame

\* setInterval(checkPermission, 1000): the hook's state follows the browser
\* and, when it changed, scheduleForPill is a new function
CheckPermission ==
  /\ mounted /\ ~schedDue
  /\ permission # browserPermission
  /\ permission' = browserPermission
  /\ schedDue' = TRUE
  /\ warned' = FALSE
  /\ UNCHANGED <<now, pills, opsLeft, mounted, browserPermission, intensity,
                 timers, nextTimer, scheduledNotifications, asking, shown,
                 delivered>>
  /\ HookFrame

\* A change the user makes: a call counted in opsLeft
Change ==
  /\ mounted /\ ~schedDue
  /\ opsLeft > 0
  /\ opsLeft' = opsLeft - 1
  /\ warned' = FALSE
  /\ UNCHANGED <<now, mounted, permission, timers, nextTimer,
                 scheduledNotifications, asking, shown, delivered>>
  /\ UNCHANGED <<logs, lastScheduleDate, rPills, rLogs, rLast, dirty,
                 effectDue, store, failsLeft, tab2, events, obs, lastOp, tz,
              keyVars, tabVars>>

\* usePills.addPill
AppAddPill(name, times) ==
  /\ Change
  /\ pills' = AddedPills(pills, nextId, name, times)
  /\ nextId' = nextId + 1
  /\ schedDue' = TRUE
  /\ UNCHANGED <<browserPermission, intensity>>

\* usePills.deletePill (the pill's part)
AppDeletePill(id) ==
  /\ Change
  /\ pills' = PillsWithout(pills, id)
  /\ schedDue' = TRUE
  /\ UNCHANGED <<nextId, browserPermission, intensity>>

\* useSettings.setNotificationIntensity
SetNotificationIntensity(level) ==
  /\ Change
  /\ level # intensity
  /\ intensity' = level
  /\ schedDue' = TRUE
  /\ UNCHANGED <<nextId, pills, browserPermission>>

\* The user changes the site's notification permission in the browser
UserSetsPermission(p) ==
  /\ Change
  /\ p # browserPermission
  /\ browserPermission' = p
  /\ UNCHANGED <<nextId, pills, intensity, schedDue>>

\* The App unmounts: the cleanups of its scheduling effect and of
\* useNotifications call cancelAll
Unmount ==
  /\ mounted /\ ~schedDue
  /\ mounted' = FALSE
  /\ SetScheduler(cancelAll(cancelAll(SchedulerState)))
  /\ UNCHANGED <<now, pills, opsLeft, permission, browserPermission, intensity,
                 schedDue, shown, delivered>>
  /\ HookFrame

\* --------------------------------------- useLocalStorage on one key
\* DEFAULT_SETTINGS, with the two fields the model follows
DEFAULT_SETTINGS == [highContrast |-> FALSE, snoozeMinutes |-> 10]

\* JSON.stringify(value): a text is <<"json", value>>; the values of the
\* model (records of booleans and integers, lists) are the ones JSON carries
\* exactly.  Malformed is a text that JSON.parse rejects.
stringify(value) == <<"json", value>>
Malformed == <<"{bad">>

\* JSON.parse(text): it throws (ok = FALSE) or returns the value
parse(t) ==
  IF t[1] = "json" THEN [ok |-> TRUE, value |-> t[2]] ELSE [ok |-> FALSE]

\* The initializer of useLocalStorage: the state, whether console.error
\* was called, whether it threw
initialStored(t, initialValue) ==
  IF t = Absent THEN [value |-> initialValue, logged |-> FALSE, threw |-> FALSE]
  ELSE IF parse(t).ok
       THEN [value |-> parse(t).value, logged |-> FALSE, threw |-> FALSE]
       ELSE [value |-> initialValue, logged |-> TRUE, threw |-> FALSE]

\* The initializers of usePills: stored ? JSON.parse(stored) : []
usePillsInitial(t) ==
  IF t = Absent THEN [value |-> <<>>, logged |-> FALSE, threw |-> FALSE]
  ELSE IF parse(t).ok
       THEN [value |-> parse(t).value, logged |-> FALSE, threw |-> FALSE]
       ELSE [value |-> <<>>, logged |-> FALSE, threw |-> TRUE]

\* What the actions on the settings key leave alone
KeyFrame ==
  UNCHANGED <<now, nextId, pills, logs, lastScheduleDate, rPills, rLogs, rLast,
              dirty, effectDue, store, tab2, events, obs, lastOp, tz, notifVars,
              tabVars>>

Live(i) == held[i] # Absent

\* The storage events of a change of the item made in context from: one to
\* every other context, when the item changed
Broadcast(from, old, new) ==
  [c \in Contexts |->
     IF c # from /\ old # new THEN Append(inbox[c], new) ELSE inbox[c]]

InboxBounded == \A c \in Contexts : Len(inbox'[c]) <= MaxEvents

\* A component with useLocalStorage(key, DEFAULT_SETTINGS) mounts
MountInstance(i) ==
  /\ ~Live(i)
  /\ LET r == initialStored(settingsItem, DEFAULT_SETTINGS)
     IN  /\ held' = [held EXCEPT ![i] = <<r.value>>]
         /\ seen' = [seen EXCEPT ![i] = <<r.value>>]
         /\ logged' = r.logged
         /\ crashed' = (crashed \/ r.threw)
  /\ UNCHANGED <<settingsItem, inbox, pillsItem, upPills, opsLeft, failsLeft>>
  /\ KeyFrame

\* The component of usePills mounts
MountUsePills ==
  /\ upPills = Absent /\ ~crashed
  /\ LET r == usePillsInitial(pillsItem)
     IN  /\ upPills' = IF r.threw THEN Absent ELSE <<r.value>>
         /\ logged' = r.logged
         /\ crashed' = r.threw
  /\ UNCHANGED <<settingsItem, held, seen, inbox, pillsItem, opsLeft, failsLeft>>
  /\ KeyFrame

\* The instance renders: its callbacks capture the state
RenderInstance(i) ==
  /\ Live(i) /\ seen[i] # held[i]
  /\ seen' = [seen EXCEPT ![i] = held[i]]
  /\ logged' = FALSE
  /\ UNCHANGED <<settingsItem, held, inbox, pillsItem, upPills, crashed,
                 opsLeft, failsLeft>>
  /\ KeyFrame

\* A call made through instance i, counted in opsLeft
KeyCall(i) ==
  /\ Live(i)
  /\ opsLeft > 0
  /\ opsLeft' = opsLeft - 1
  /\ UNCHANGED <<seen, pillsItem, upPills, crashed>>
  /\ KeyFrame

\* Faulty variant: setItem is given the state of the render, not valueToStore
setValueStoresState(i, valueToStore, ok) ==
  /\ held' = [held EXCEPT ![i] = <<valueToStore>>]
  /\ settingsItem' = IF ok THEN stringify(seen[i][1]) ELSE settingsItem
  /\ inbox' = Broadcast(contextOf(i), settingsItem, settingsItem')
  /\ logged' = ~ok
  /\ failsLeft' = failsLeft - failed([ok |-> ok])
  /\ InboxBounded

\* setValue, after valueToStore is computed: setStoredValue, then setItem,
\* which throws (ok = FALSE) or stores the text
setValue(i, valueToStore, ok) ==
  /\ held' = [held EXCEPT ![i] = <<valueToStore>>]
  /\ settingsItem' = IF ok THEN stringify(valueToStore) ELSE settingsItem
  /\ inbox' = Broadcast(contextOf(i), settingsItem, settingsItem')
  /\ logged' = ~ok
  /\ failsLeft' = failsLeft - failed([ok |-> ok])
  /\ InboxBounded

\* setValue(value) with a direct value
SetValueDirect(i, value) ==
  /\ KeyCall(i)
  /\ \E ok \in OkChoices : setValue(i, value, ok)

\* updateSettings(updates): setSettings(prev => ({ ...prev, ...updates })),
\* the updater applied to the storedValue of the last render
UpdateSettings(i, updates) ==
  /\ KeyCall(i)
  /\ \E ok \in OkChoices : setValue(i, Spread(seen[i][1], updates), ok)

\* setSnoozeMinutes(minutes)
SetSnoozeMinutes(i, minutes) ==
  /\ KeyCall(i)
  /\ IF minutes > 0 /\ minutes <= 60
     THEN \E ok \in OkChoices :
            setValue(i, Spread(seen[i][1], [snoozeMinutes |-> minutes]), ok)
     ELSE /\ logged' = FALSE
          /\ UNCHANGED <<settingsItem, held, inbox, failsLeft>>

\* resetSettings(): clearValue, removeItem and then the initial value
ResetSettings(i) ==
  /\ KeyCall(i)
  /\ settingsItem' = Absent
  /\ held' = [held EXCEPT ![i] = <<DEFAULT_SETTINGS>>]
  /\ inbox' = Broadcast(contextOf(i), settingsItem, settingsItem')
  /\ logged' = FALSE
  /\ UNCHANGED failsLeft
  /\ InboxBounded

\* handleStorageChange of one instance for the event newValue
handleStorageChange(state, newValue) ==
  IF newValue # Absent /\ parse(newValue).ok
  THEN <<parse(newValue).value>>
  ELSE state

\* The next storage event reaches context c: the listener of every
\* instance mounted there runs
DeliverStorageEvent(c) ==
  /\ inbox[c] # <<>>
  /\ LET newValue == Head(inbox[c])
     IN  /\ held' = [i \in Instances |->
                       IF Live(i) /\ contextOf(i) = c
                       THEN handleStorageChange(held[i], newValue) ELSE held[i]]
         /\ logged' = /\ newValue # Absent /\ ~parse(newValue).ok
                      /\ \E i \in Instances : Live(i) /\ contextOf(i) = c
  /\ inbox' = [inbox EXCEPT ![c] = Tail(@)]
  /\ UNCHANGED <<settingsItem, seen, pillsItem, upPills, crashed, opsLeft,
                 failsLeft>>
  /\ KeyFrame

\* A program outside the two contexts (an older version, the developer
\* tools) writes a text under the key
ForeignWrite(t) ==
  /\ opsLeft > 0
  /\ opsLeft' = opsLeft - 1
  /\ settingsItem' = t
  /\ inbox' = Broadcast("outside", settingsItem, t)
  /\ logged' = FALSE
  /\ InboxBounded
  /\ UNCHANGED <<held, seen, pillsItem, upPills, crashed, failsLeft>>
  /\ KeyFrame

\* ------------------------------------------- the hook of a second context
\* What the steps of the second context leave alone in the first
ThereFrame ==
  UNCHANGED <<now, pills, logs, lastScheduleDate, rPills, rLogs, rLast, dirty,
              effectDue, failsLeft, opsLeft, tab2, lastOp, tz, notifVars,
              keyVars>>

\* The storage event of a write made in the second context
storageEventBack(s, w) ==
  IF s[w.key] # <<w.value>>
  THEN <<[key |-> w.key, newValue |-> w.value]>>
  ELSE <<>>

\* handleStorageChange in the second context: the state of the key's
\* instance follows the event, the hook renders and its effect has to run
HandleStorageChangeThere ==
  /\ events # <<>>
  /\ LET e == Head(events)
     IN obs' = [obs EXCEPT ![e.key] = <<e.newValue>>]
  /\ events' = Tail(events)
  /\ effectDue2' = TRUE
  /\ UNCHANGED <<nextId, store, eventsBack>>
  /\ ThereFrame

\* The generation effect of the second context, on the state of its render
GenerateDailyLogsThere ==
  /\ tab2 /\ effectDue2
  /\ effectDue2' = FALSE
  /\ LET today == toDateString(now)
         newLogs == NewLogs(obs["pills"][1], nextId)
         w1 == [key |-> "pill-logs", value |-> obs["pill-logs"][1] \o newLogs,
                ok |-> TRUE]
         w2 == [key |-> "last-schedule-date", value |-> today, ok |-> TRUE]
     IN IF GenerationDue(obs["last-schedule-date"][1], today)
        THEN /\ obs' = [obs EXCEPT !["pill-logs"] = <<w1.value>>,
                                   !["last-schedule-date"] = <<today>>]
             /\ nextId' = nextId + Len(newLogs)
             /\ store' = setItem(setItem(store, w1), w2)
             /\ eventsBack' = eventsBack \o storageEventBack(store, w1)
                                 \o storageEventBack(setItem(store, w1), w2)
             /\ Len(eventsBack') <= MaxEvents
        ELSE UNCHANGED <<obs, nextId, store, eventsBack>>
  /\ UNCHANGED events
  /\ ThereFrame

\* handleStorageChange in the first context, for an event of the second
HandleStorageChangeHere ==
  /\ eventsBack # <<>>
  /\ LET e == Head(eventsBack)
     IN /\ pills' = IF e.key = "pills" THEN e.newValue ELSE pills
        /\ logs' = IF e.key = "pill-logs" THEN e.newValue ELSE logs
        /\ lastScheduleDate' =
             IF e.key = "last-schedule-date" THEN e.newValue ELSE lastScheduleDate
  /\ eventsBack' = Tail(eventsBack)
  /\ dirty' = TRUE
  /\ UNCHANGED <<now, nextId, rPills, rLogs, rLast, effectDue, store,
                 failsLeft, opsLeft, tab2, events, obs, lastOp, tz, notifVars,
                 keyVars, effectDue2>>

\* ------------------------------------------------------------------ Next
\* The ids a caller can pass: those of the rendered pills (logs) and one
\* that matches nothing
PillIds == {rPills[i].id : i \in DOMAIN rPills} \cup {0}
LogIds == {rLogs[i].id : i \in DOMAIN rLogs} \cup {0}
Updates == {[name |-> "B", times |-> <<<<21, 30>>>>], [id |-> 9]}

Hook ==
  \/ Render
  \/ GenerateDailyLogs
  \/ \E times \in TimesChoices : AddPill("A", times)
  \/ \E id \in PillIds, u \in Updates : UpdatePill(id, u)
  \/ \E id \in PillIds : DeletePill(id)
  \/ \E id \in LogIds : MarkPillTaken(id)
  \/ \E id \in LogIds, m \in SnoozeChoices : SnoozePill(id, m)
  \/ \E id \in LogIds : MarkPillMissed(id)
  \/ Tick

Next == Hook

NextStore == Hook \/ HandleStorageChange

Spec == Init /\ [][Next]_vars

SpecStore == InitStore /\ [][NextStore]_vars

\* The mount of a session on a stored history: the effect and the render
\* its state changes ask for
NextStreak == Render \/ GenerateDailyLogs

SpecStreak == InitStreak /\ [][NextStreak]_vars

SpecHeatmap == InitHeatmap /\ [][NextStreak]_vars

\* The App mounts with its scheduler: the pills of an earlier session or
\* none, the default intensity, and the permission the browser holds
InitNotify ==
  /\ now = [day |-> 0, hour |-> 9, minute |-> 0, second |-> 0, ms |-> 0]
  /\ \E stored \in StoredPills :
       /\ store = [k \in Keys |-> IF k = "pills" THEN stored ELSE Absent]
       /\ pills = initialState(stored, <<>>)
  /\ logs = <<>> /\ lastScheduleDate = NoDate
  /\ rPills = pills /\ rLogs = logs /\ rLast = lastScheduleDate
  /\ nextId = Len(pills) + 1
  /\ dirty = FALSE /\ effectDue = FALSE
  /\ events = <<>>
  /\ obs = [k \in Keys |-> <<>>]
  /\ lastOp = [name |-> "mount", id |-> 0, arg |-> 0]
  /\ opsLeft = MaxNotifyOps /\ failsLeft = 0 /\ tab2 = FALSE
  /\ tz = 0
  /\ mounted = TRUE /\ schedDue = TRUE
  /\ browserPermission \in Permissions
  /\ permission = browserPermission
  /\ intensity = "normal"
  /\ timers = {} /\ nextTimer = 1 /\ scheduledNotifications = {}
  /\ asking = <<>> /\ shown = {} /\ delivered = 0 /\ warned = FALSE
  /\ NoKey /\ NoSecondHook

NextNotify ==
  \/ RunSchedulingEffect
  \/ TimerFires
  \/ AnswerPermission
  \/ RequestPermission
  \/ CheckPermission
  \/ \E times \in TimesChoices : AppAddPill("B", times)
  \/ \E i \in DOMAIN pills : AppDeletePill(pills[i].id)
  \/ \E level \in Intensities : SetNotificationIntensity(level)
  \/ \E p \in Permissions : UserSetsPermission(p)
  \/ Unmount
  \/ Tick

SpecNotify == InitNotify /\ [][NextNotify]_vars

\* The texts an earlier session or another program can have left
StoredSettings == [highContrast |-> TRUE, snoozeMinutes |-> 30]
StoredTexts == {Absent, Malformed, stringify(StoredSettings)}
StoredPillsTexts == {Absent, Malformed, stringify(<<>>)}
SettingsUpdates == {[snoozeMinutes |-> 5], [snoozeMinutes |-> 61]}
SnoozeInputs == {0, 45, 61}

\* Nothing is mounted yet on a store that holds what earlier sessions left
InitKeyWith(ops, fails) ==
  /\ now = [day |-> 0, hour |-> 9, minute |-> 0, second |-> 0, ms |-> 0]
  /\ store = [k \in Keys |-> Absent]
  /\ pills = <<>> /\ logs = <<>> /\ lastScheduleDate = NoDate
  /\ rPills = pills /\ rLogs = logs /\ rLast = lastScheduleDate
  /\ nextId = 1
  /\ dirty = FALSE /\ effectDue = FALSE
  /\ events = <<>>
  /\ obs = [k \in Keys |-> <<>>]
  /\ lastOp = [name |-> "mount", id |-> 0, arg |-> 0]
  /\ tab2 = FALSE /\ tz = 0
  /\ NoScheduler
  /\ opsLeft = ops /\ failsLeft = fails
  /\ settingsItem \in StoredTexts
  /\ pillsItem \in StoredPillsTexts
  /\ held = [i \in Instances |-> Absent] /\ seen = held
  /\ inbox = [c \in Contexts |-> <<>>]
  /\ upPills = Absent
  /\ logged = FALSE /\ crashed = FALSE
  /\ NoSecondHook

InitKey == InitKeyWith(MaxKeyOps, MaxFail)

NextKey ==
  \/ \E i \in Instances : MountInstance(i)
  \/ MountUsePills
  \/ \E i \in Instances : RenderInstance(i)
  \/ \E i \in Instances : SetValueDirect(i, StoredSettings)
  \/ \E i \in Instances, u \in SettingsUpdates : UpdateSettings(i, u)
  \/ \E i \in Instances, minutes \in SnoozeInputs : SetSnoozeMinutes(i, minutes)
  \/ \E i \in Instances : ResetSettings(i)
  \/ \E c \in Contexts : DeliverStorageEvent(c)
  \/ \E t \in StoredTexts \ {Absent} : ForeignWrite(t)

SpecKey == InitKey /\ [][NextKey]_vars

\* One component alone on the key, in a store whose writes all succeed
InitOneKey == InitKeyWith(MaxOneKeyOps, 0)

NextOneKey ==
  \/ MountInstance(1)
  \/ RenderInstance(1)
  \/ SetValueDirect(1, StoredSettings)
  \/ \E u \in SettingsUpdates : UpdateSettings(1, u)
  \/ ResetSettings(1)
  \/ \E c \in Contexts : DeliverStorageEvent(c)

SpecOneKey == InitOneKey /\ [][NextOneKey]_vars

\* Two contexts left open overnight on one store: both hold the pills, the
\* logs and the marker of the day before, and their effects have run
InitTabs ==
  /\ now = [day |-> 1, hour |-> 9, minute |-> 0, second |-> 0, ms |-> 0]
  /\ \E stored \in StoredPills :
       store = [k \in Keys |-> CASE k = "pills" -> stored
                                 [] k = "pill-logs" -> Absent
                                 [] OTHER -> <<0>>]
  /\ pills = initialState(store["pills"], <<>>)
  /\ logs = initialState(store["pill-logs"], <<>>)
  /\ lastScheduleDate = initialState(store["last-schedule-date"], NoDate)
  /\ rPills = pills /\ rLogs = logs /\ rLast = lastScheduleDate
  /\ nextId = Len(pills) + 1
  /\ dirty = FALSE /\ effectDue = FALSE
  /\ events = <<>>
  /\ obs = [k \in Keys |-> <<CASE k = "pills" -> pills
                               [] k = "pill-logs" -> logs
                               [] OTHER -> lastScheduleDate>>]
  /\ lastOp = [name |-> "mount", id |-> 0, arg |-> 0]
  /\ opsLeft = MaxTabOps /\ failsLeft = 0 /\ tab2 = TRUE
  /\ tz = 0
  /\ NoScheduler /\ NoKey /\ NoSecondHook

NextTabs ==
  \/ Render
  \/ GenerateDailyLogs
  \/ \E times \in TimesChoices : AddPill("A", times)
  \/ \E id \in LogIds : MarkPillTaken(id)
  \/ \E id \in LogIds : MarkPillMissed(id)
  \/ HandleStorageChangeThere
  \/ GenerateDailyLogsThere
  \/ HandleStorageChangeHere

SpecTabs == InitTabs /\ [][NextTabs]_vars

\* The options a caller of showNotification can pass: each field present or
\* not (showNotification(title) passes none)
CallerOptions ==
  LET none == [k \in {} |-> TRUE]
  IN  {i @@ s @@ t @@ b :
         i \in {none} \cup {"intensity" :> level : level \in Intensities},
         s \in {none} \cup {"silent" :> v : v \in BOOLEAN},
         t \in {none} \cup {"tag" :> Tag("A", d) : d \in ClockTimes},
         b \in {none, "body" :> "Body"}}

\* One call of showNotification, outside the App
InitShow ==
  /\ now = [day |-> 0, hour |-> 9, minute |-> 0, second |-> 0, ms |-> 0]
  /\ store = [k \in Keys |-> Absent]
  /\ pills = <<>> /\ logs = <<>> /\ lastScheduleDate = NoDate
  /\ rPills = pills /\ rLogs = logs /\ rLast = lastScheduleDate
  /\ nextId = 1
  /\ dirty = FALSE /\ effectDue = FALSE
  /\ events = <<>>
  /\ obs = [k \in Keys |-> <<>>]
  /\ lastOp = [name |-> "mount", id |-> 0, arg |-> 0]
  /\ opsLeft = 0 /\ failsLeft = 0 /\ tab2 = FALSE
  /\ tz = 0
  /\ mounted = FALSE /\ schedDue = FALSE
  /\ permission = "denied" /\ intensity = "normal"
  /\ timers = {} /\ nextTimer = 1 /\ scheduledNotifications = {}
  /\ shown = {} /\ delivered = 0 /\ warned = FALSE
  /\ NoKey /\ NoSecondHook
  /\ \E options \in CallerOptions, p \in Permissions :
       /\ browserPermission = p
       /\ asking = <<[title |-> "Test", options |-> options]>>

NextShow == AnswerPermission

SpecShow == InitShow /\ [][NextShow]_vars

\* =================================================================== claims
\* Vocabulary of the claims
PillIdsOf(ps) == {ps[i].id : i \in DOMAIN ps}
DayOf(stamp) == stamp[1]
Today == toDateString(now)

\* A step is a call of the named operation of the hook
Called(name) == opsLeft' = opsLeft - 1 /\ lastOp'.name = name

\* A step is a run of the generation effect
EffectRan == effectDue /\ ~effectDue'

\* The number of time entries of the first n pills
RECURSIVE TimesUpTo(_, _)
TimesUpTo(ps, n) == IF n = 0 THEN 0 ELSE TimesUpTo(ps, n - 1) + Len(ps[n].times)

C2_GenerationAppends ==
  [][ (EffectRan /\ lastScheduleDate # Today)
        => /\ Len(logs') = Len(logs) + TimesUpTo(pills, Len(pills))
           /\ SubSeq(logs', 1, Len(logs)) = logs
           /\ \A p \in DOMAIN pills : \A k \in DOMAIN pills[p].times :
                LET log == logs'[Len(logs) + TimesUpTo(pills, p - 1) + k]
                IN /\ log.pillId = pills[p].id
                   /\ log.status = "pending"
                   /\ log.takenTime = Absent /\ log.snoozedUntil = Absent
                   /\ log.scheduledTime =
                        <<Today, pills[p].times[k][1], pills[p].times[k][2], 0>>
           /\ lastScheduleDate' = Today
    ]_vars

\* C2 witness: a pass has appended, after the logs of an earlier day, the
\* logs of two pills, one of them with the same time twice
C2_Witness ==
  /\ ~effectDue /\ dirty /\ lastScheduleDate = Today /\ rLast # Today
  /\ \E i \in DOMAIN logs : DayOf(logs[i].scheduledTime) < Today
  /\ \E i, j \in DOMAIN logs :
       /\ i < j /\ logs[i].pillId = logs[j].pillId
       /\ logs[i].scheduledTime = logs[j].scheduledTime
       /\ DayOf(logs[i].scheduledTime) = Today
  /\ Len(pills) = 2

\* The state a context reads from the store when it mounts
Stored(key, initialValue) == initialState(store[key], initialValue)

NoOrphans(ps, ls) == \A i \in DOMAIN ls : ls[i].pillId \in PillIdsOf(ps)

HasLogOf(ls, pillId) == \E i \in DOMAIN ls : ls[i].pillId = pillId

\* C3: every log's pillId is the id of a pill of the pill list, in every
\* state the hook reaches.
C3_NoOrphanLogs == NoOrphans(pills, logs)

C5_DeleteAtomic ==
  [][ /\ ( /\ Called("deletePill") /\ ~dirty
           /\ lastOp'.id \in PillIdsOf(Stored("pills", <<>>))
           /\ HasLogOf(Stored("pill-logs", <<>>), lastOp'.id) )
         => LET sPills == initialState(store'["pills"], <<>>)
                sLogs == initialState(store'["pill-logs"], <<>>)
            IN (lastOp'.id \in PillIdsOf(sPills)) <=> HasLogOf(sLogs, lastOp'.id)
      /\ ( /\ obs' # obs
           /\ Head(events).key = "pills"
           /\ PillIdsOf(Head(events).newValue) \subseteq PillIdsOf(obs["pills"][1])
           /\ PillIdsOf(Head(events).newValue) # PillIdsOf(obs["pills"][1])
           /\ NoOrphans(obs["pills"][1], obs["pill-logs"][1]) )
         => NoOrphans(obs'["pills"][1], obs'["pill-logs"][1])
    ]_vars

\* C6: in every state and for every log, takenTime is present exactly when
\* the status is taken, and snoozedUntil exactly when it is snoozed.
C6_FieldsMatchStatus ==
  \A i \in DOMAIN logs :
    /\ (logs[i].takenTime # Absent) <=> (logs[i].status = "taken")
    /\ (logs[i].snoozedUntil # Absent) <=> (logs[i].status = "snoozed")

\* C7: markPillTaken(logId) leaves the log with that id taken, with the
\* current time as takenTime and no snoozedUntil, and every other log as it
\* was rendered.
C7_MarkTaken ==
  [][ Called("markPillTaken")
        => /\ Len(logs') = Len(rLogs)
           /\ \A i \in DOMAIN rLogs :
                IF rLogs[i].id = lastOp'.id
                THEN /\ logs'[i].status = "taken"
                     /\ logs'[i].takenTime = <<now.day, now.hour, now.minute, now.second>>
                     /\ logs'[i].snoozedUntil = Absent
                ELSE logs'[i] = rLogs[i]
    ]_vars

\* C8: markPillMissed(logId) leaves the log with that id missed, with no
\* takenTime and no snoozedUntil.
C8_MarkMissed ==
  [][ Called("markPillMissed")
        => /\ Len(logs') = Len(rLogs)
           /\ \A i \in DOMAIN rLogs :
                rLogs[i].id = lastOp'.id
                  => /\ logs'[i].status = "missed"
                     /\ logs'[i].takenTime = Absent
                     /\ logs'[i].snoozedUntil = Absent
    ]_vars

\* The stamp of the instant m minutes after d, by minutes counted from day 0
StampAfter(d, m) ==
  LET t == d.day * 1440 + d.hour * 60 + d.minute + m
  IN  <<t \div 1440, (t % 1440) \div 60, t % 60, d.second>>

ScheduledOn(ls, day) == {i \in DOMAIN ls : DayOf(ls[i].scheduledTime) = day}

\* C12: the hook mounts on an empty store and a pill with two times is
\* added on the same day; once the render and the effect that follow have
\* run, the log list holds exactly two logs scheduled today, one per time.
C12_MountThenAdd ==
  ( /\ lastOp.name = "addPill" /\ opsLeft = MaxOps - 1
    /\ Len(pills) = 1 /\ Len(pills[1].times) = 2
    /\ ~dirty /\ ~effectDue
    /\ Today = 0 )
    => Cardinality(ScheduledOn(logs, Today)) = Len(pills[1].times)

\* C13: a mutation issued after another one, a re-render having happened in
\* between or not, acts on the state the earlier one left: the pills and
\* the logs after the call are the operation applied to the pills and the
\* logs before it.  (The generation effect's own state changes are rendered
\* before any call: rLast = lastScheduleDate.)
C13_NoLostUpdate ==
  [][ rLast = lastScheduleDate =>
      LET id == lastOp'.id
      IN /\ Called("addPill")
              => /\ Len(pills') = Len(pills) + 1
                 /\ SubSeq(pills', 1, Len(pills)) = pills
                 /\ logs' = logs
         /\ Called("updatePill")
              => /\ Len(pills') = Len(pills)
                 /\ \A i \in DOMAIN pills : pills[i].id # id => pills'[i] = pills[i]
                 /\ logs' = logs
         /\ Called("deletePill")
              => /\ pills' = SelectSeq(pills, LAMBDA p : p.id # id)
                 /\ logs' = SelectSeq(logs, LAMBDA l : l.pillId # id)
         /\ Called("markPillTaken")
              => /\ logs' = [i \in DOMAIN logs |->
                              IF logs[i].id = id THEN TakenLog(logs[i]) ELSE logs[i]]
                 /\ pills' = pills
         /\ Called("snoozePill")
              => /\ logs' = [i \in DOMAIN logs |->
                              IF logs[i].id = id THEN SnoozedLog(logs[i], lastOp'.arg)
                              ELSE logs[i]]
                 /\ pills' = pills
         /\ Called("markPillMissed")
              => /\ logs' = [i \in DOMAIN logs |->
                              IF logs[i].id = id THEN MissedLog(logs[i]) ELSE logs[i]]
                 /\ pills' = pills
    ]_vars

\* r holds elements of ls in the order of ls
InOrderOf(r, ls) ==
  \A i, j \in DOMAIN r :
    i < j => \E a, b \in DOMAIN ls : a < b /\ ls[a] = r[i] /\ ls[b] = r[j]

\* C14: getPendingLogs, of the current and of the rendered log list, holds
\* every log whose status is pending or snoozed, once each, and no log with
\* another status, wherever they stand in the list.
C14_PendingLogs ==
  \A ls \in {logs, rLogs} :
    LET r == getPendingLogs(ls)
        open == {i \in DOMAIN ls : ls[i].status \in {"pending", "snoozed"}}
    IN /\ \A j \in DOMAIN r : r[j].status \in {"pending", "snoozed"}
       /\ \A i \in open : \E j \in DOMAIN r : r[j] = ls[i]
       /\ Len(r) = Cardinality(open)

\* C14 witness: a taken log stands before a snoozed one and pending ones
C14_Witness ==
  \E i, j, k \in DOMAIN logs :
    /\ i < j /\ logs[i].status = "taken" /\ logs[j].status = "snoozed"
    /\ logs[k].status = "pending"
    /\ Len(getPendingLogs(logs)) = Len(logs) - 1

\* C15: getTodayLogs holds every log scheduled on today's calendar date,
\* once each, whatever its status, in the order of the log list, and no log
\* scheduled on another date.
C15_TodayLogs ==
  \A ls \in {logs, rLogs} :
    LET r == getTodayLogs(ls)
    IN /\ \A j \in DOMAIN r : DayOf(r[j].scheduledTime) = Today
       /\ \A i \in ScheduledOn(ls, Today) : \E j \in DOMAIN r : r[j] = ls[i]
       /\ Len(r) = Cardinality(ScheduledOn(ls, Today))
       /\ InOrderOf(r, ls)

\* C15 witness: after the logs of an earlier day, today's logs hold a taken
\* one and a pending one
C15_Witness ==
  /\ \E i \in DOMAIN logs : DayOf(logs[i].scheduledTime) < Today
  /\ \E i, j \in DOMAIN getTodayLogs(logs) :
       /\ getTodayLogs(logs)[i].status = "taken"
       /\ getTodayLogs(logs)[j].status = "pending"
  /\ Len(getTodayLogs(logs)) < Len(logs)

\* ------------------------------------------------------------- streaks
\* The calendar dates on which a log list has a taken entry with a takenTime
TakenDays(ls) ==
  {DayOf(ls[i].takenTime) :
     i \in {j \in DOMAIN ls : ls[j].status = "taken" /\ ls[j].takenTime # Absent}}

\* The number of consecutive days of S that end at day d
RunEndingAt(S, d) ==
  CHOOSE n \in 0..Cardinality(S) :
    /\ \A k \in 0..(n - 1) : d - k \in S
    /\ d - n \notin S

\* The length of the longest run of consecutive days of S
LongestRun(S) == Max({RunEndingAt(S, d) : d \in S} \cup {0})

Reverse(ls) == [i \in DOMAIN ls |-> ls[Len(ls) + 1 - i]]

\* C16: calculateStreak of a log list is the number of dates in the run of
\* consecutive days that ends at the most recent takenTime date of a taken
\* entry, 0 when there is no such entry; the list read backwards, and the
\* list without its entries of another status, give the same number.
C16_CalculateStreak ==
  \A ls \in {logs, rLogs} :
    LET days == TakenDays(ls)
    IN /\ calculateStreak(ls) =
            IF days = {} THEN 0 ELSE RunEndingAt(days, Max(days))
       /\ calculateStreak(Reverse(ls)) = calculateStreak(ls)
       /\ calculateStreak(SelectSeq(ls, LAMBDA log : log.status = "taken"))
            = calculateStreak(ls)

\* C16 witness: a list that is not in the order of its takenTimes holds two
\* taken entries of one date, a missed and a pending entry, and the run that
\* ends at the most recent date has two days
C16_Witness ==
  /\ calculateStreak(logs) = 2
  /\ \E i, j \in DOMAIN logs :
       /\ i < j /\ logs[i].status = "taken" /\ logs[j].status = "taken"
       /\ DayOf(logs[i].takenTime) > DayOf(logs[j].takenTime)
  /\ \E i, j \in DOMAIN logs :
       /\ i # j /\ logs[i].status = "taken" /\ logs[j].status = "taken"
       /\ DayOf(logs[i].takenTime) = DayOf(logs[j].takenTime)
  /\ \E i \in DOMAIN logs : logs[i].status = "pending"

\* The most recent taken date of a list that has one
LastTakenDay(ls) == Max(TakenDays(ls))

\* C17: whenever the most recent taken date is more than one calendar day
\* before today, the current streak of the StreakData is 0, as
\* usePillSchedule and as useStreak report it.
C17_LapsedStreakIsZero ==
  (TakenDays(rLogs) # {} /\ Today - LastTakenDay(rLogs) > 1)
    => /\ streakData(rLogs).current = 0
       /\ useStreak(rLogs).current = 0

\* C18: the current streak usePillSchedule reports is the length of the run
\* of consecutive taken dates that ends at the most recent taken date,
\* whatever date the clock shows.
C18_CurrentStreak ==
  \A ls \in {logs, rLogs} :
    streakData(ls).current =
      IF TakenDays(ls) = {} THEN 0
      ELSE RunEndingAt(TakenDays(ls), LastTakenDay(ls))

\* C18 witness: taken entries on three consecutive dates, the last of them
\* two days before today, and a current streak of 3
C18_Witness ==
  /\ streakData(rLogs).current = 3
  /\ Today - LastTakenDay(rLogs) = 2
  /\ \A d \in TakenDays(rLogs) : LastTakenDay(rLogs) - d <= 2

\* C19: the best streak of the StreakData is the length of the longest run
\* of consecutive calendar dates with a taken entry, whatever the order of
\* the entries in the list, as usePillSchedule and as useStreak report it.
C19_BestStreak ==
  /\ streakData(rLogs).best = LongestRun(TakenDays(rLogs))
  /\ useStreak(rLogs).best = LongestRun(TakenDays(rLogs))

\* The entries that are not taken and can be added to a list today
OtherEntries ==
  { [id |-> 0, pillId |-> 1, scheduledTime |-> <<d, 9, 0, 0>>, status |-> st,
     takenTime |-> Absent, snoozedUntil |-> Absent] :
      d \in 0..Today, st \in {"missed", "pending", "snoozed"} }

\* The list ls with entry e put in behind its first k entries
InsertAt(ls, k, e) == SubSeq(ls, 1, k) \o <<e>> \o SubSeq(ls, k + 1, Len(ls))

\* C20: a missed, pending or snoozed entry added anywhere to the log list
\* changes neither calculateStreak nor the current and the best streak of
\* usePillSchedule and of useStreak.
C20_OtherStatusIgnored ==
  \A e \in OtherEntries, k \in 0..Len(rLogs) :
    LET with == InsertAt(rLogs, k, e)
    IN /\ calculateStreak(with) = calculateStreak(rLogs)
       /\ streakData(with).current = streakData(rLogs).current
       /\ streakData(with).best = streakData(rLogs).best
       /\ useStreak(with).current = useStreak(rLogs).current
       /\ useStreak(with).best = useStreak(rLogs).best

\* The entries of a list that are taken and carry a takenTime
TakenEntries(ls) ==
  {i \in DOMAIN ls : ls[i].status = "taken" /\ ls[i].takenTime # Absent}

\* C21: lastTaken, as usePillSchedule and as useStreak report it, is the
\* takenTime of a taken entry that no taken entry of the list exceeds,
\* wherever that entry stands in the list, and is absent when no entry is
\* taken.
C21_LastTaken ==
  \A ls \in {logs, rLogs} : \A last \in {streakData(ls).lastTaken, useStreak(ls).lastTaken} :
    IF TakenEntries(ls) = {} THEN last = Absent
    ELSE /\ \E i \in TakenEntries(ls) : ls[i].takenTime = last
         /\ \A i \in TakenEntries(ls) : getTime(ls[i].takenTime) <= getTime(last)

\* C21 witness: the entry taken last stands between two entries taken
\* earlier, in a list that also holds pending entries
C21_Witness ==
  \E i, j, k \in TakenEntries(logs) :
    /\ i < j /\ j < k
    /\ logs[j].takenTime = streakData(logs).lastTaken
    /\ getTime(logs[i].takenTime) < getTime(logs[j].takenTime)
    /\ getTime(logs[k].takenTime) < getTime(logs[j].takenTime)
    /\ \E n \in DOMAIN logs : logs[n].status = "pending"

\* ------------------------------------------------------------- heatmap
\* The entries of a list scheduled on a local calendar day with a status
OnDayWith(ls, day, status) ==
  {i \in DOMAIN ls : DayOf(ls[i].scheduledTime) = day /\ ls[i].status = status}

\* C22: for each day of the window, taken and missed count the logs
\* scheduled on that calendar day with that status, and compliance is
\* taken / (taken + missed) * 100: 0 when taken + missed = 0, between 0 and
\* 100 otherwise, and 100 exactly when taken > 0 and missed = 0.
C22_Compliance ==
  LET data == heatmapData(rLogs, DaysToShow)
  IN \A n \in DOMAIN data :
       LET cell == data[n]
           taken == Cardinality(OnDayWith(rLogs, cell.date.day, "taken"))
           missed == Cardinality(OnDayWith(rLogs, cell.date.day, "missed"))
           c == cell.compliance
       IN /\ cell.date.day = Today - (DaysToShow - n)
          /\ cell.taken = taken /\ cell.missed = missed
          /\ c.num * (taken + missed) = taken * 100 * c.den
          /\ (taken + missed = 0) => c.num = 0
          /\ 0 <= c.num /\ c.num <= 100 * c.den
          /\ (c.num = 100 * c.den) <=> (taken > 0 /\ missed = 0)

\* C23: the cell of a day on which no taken and no missed log is scheduled
\* shows the colour of 'no data', and the cell of a day with missed logs
\* and no taken one shows the colour of 0%, which is another colour.
C23_NoDataIsNotZero ==
  LET data == heatmapData(rLogs, DaysToShow)
  IN \A n \in DOMAIN data :
       LET taken == Cardinality(OnDayWith(rLogs, data[n].date.day, "taken"))
           missed == Cardinality(OnDayWith(rLogs, data[n].date.day, "missed"))
       IN /\ (taken = 0 /\ missed = 0) => CellClass(data[n]) = "bg-gray-700"
          /\ (taken = 0 /\ missed > 0) => CellClass(data[n]) = "bg-red-700"

\* ---- notification scheduler
EffectStep == schedDue /\ ~schedDue'
UnmountStep == mounted /\ ~mounted'
Fired(t) ==
  /\ epochMs(now) >= epochMs(t.fireAt)
  /\ asking' = Append(asking, Request(t.pillName, t.fireAt, t.intensity))
TagTimes ==
  {asking[i].options.tag[3] : i \in DOMAIN asking} \cup {n.options.tag[3] : n \in shown}
PillTimes == {<<9, 0>>, <<21, 30>>}
ScheduleInputs == ClockTimes \cup {parseTimeString(tm) : tm \in PillTimes}

\* What scheduleNotification returns and leaves, by the sign of the delay
C24_Contract ==
  \A scheduledTime \in ScheduleInputs :
    LET level == intensity
        r == scheduleNotification(SchedulerState, "A", scheduledTime, level)
    IN  IF epochMs(scheduledTime) > epochMs(now)
        THEN /\ r.ret >= 0
             /\ \A t \in timers : t.id # r.ret
             /\ r.st.timers =
                  timers \cup {[id |-> r.ret, fireAt |-> scheduledTime,
                                pillName |-> "A", intensity |-> level]}
             /\ r.st.asking = asking
        ELSE /\ r.ret = -1
             /\ r.st.timers = timers
             /\ r.st.asking = Append(asking, Request("A", scheduledTime, level))

\* C24: scheduleNotification with a time strictly in the future arms one
\* one-shot timer and returns its non-negative id; no delivery is requested
\* before that time, and the timer requests exactly one delivery, when its
\* time is reached, and is then gone. With a time equal to or before now it
\* arms no timer, returns -1 and requests the delivery at once.
C24_ScheduleNotification ==
  [][ /\ C24_Contract
      /\ \A tagTime \in TagTimes' : tagTime <= epochMs(now')
      /\ \A t \in timers \ timers' : EffectStep \/ UnmountStep \/ Fired(t)
      /\ (Len(asking') > Len(asking) /\ ~EffectStep)
           => \E t \in timers \ timers' : Fired(t) ]_vars

\* The stored pill was scheduled on mount at 09:00: its 09:00 was requested
\* at once, its 21:30 was armed and has fired since
C24_Witness ==
  /\ mounted /\ opsLeft = MaxNotifyOps
  /\ nextTimer = 2 /\ timers = {}
  /\ Len(asking) = 2
  /\ asking[1].options.tag = Tag("A", parseTimeString(<<9, 0>>))
  /\ asking[2].options.tag = Tag("A", [parseTimeString(<<21, 30>>) EXCEPT !.day = 0])
  /\ asking[2].options.tag[3] > asking[1].options.tag[3]

\* cancelNotification on the armed timers of the state, for every id
C25_Contract ==
  /\ \A t \in timers :
       /\ cancelNotification(timers, t.id) = timers \ {t}
       /\ t.id >= 1 /\ t.id < nextTimer
  /\ cancelNotification(timers, -1) = timers
  /\ \A id \in 0..nextTimer :
       (\A t \in timers : t.id # id) => cancelNotification(timers, id) = timers

\* C25: cancelNotification(id) for an armed timer disarms that timer and no
\* other, and the timer requests no delivery afterwards: only armed timers
\* fire and an id is never armed a second time. cancelNotification(-1) clears
\* nothing, and cancelling an id that has fired (or was cancelled) changes
\* nothing.
C25_CancelNotification ==
  [][ /\ C25_Contract
      /\ \A t \in timers' \ timers : t.id >= nextTimer
      /\ UnmountStep => asking' = asking ]_vars

\* The 21:30 timer armed on mount was cancelled before its time, the time
\* has passed, and it has requested nothing
C25_Witness ==
  /\ nextTimer = 2 /\ timers = {}
  /\ now.day = 1
  /\ \A tagTime \in TagTimes :
       tagTime < epochMs([parseTimeString(<<21, 30>>) EXCEPT !.day = 0])

\* The timer was armed for a time of a pill of the list, under its name and
\* with the intensity of the settings
Current(t) ==
  /\ t.intensity = intensity
  /\ \E i \in DOMAIN pills :
       /\ t.pillName = pills[i].name
       /\ \E k \in DOMAIN pills[i].times :
            pills[i].times[k] = <<t.fireAt.hour, t.fireAt.minute>>

\* C26: once a change of the pill list or of the intensity is processed, no
\* timer armed before the change is still armed, and every armed timer
\* carries the name and a time of a pill of the list and the intensity of
\* the settings; so after a pill is deleted, and when the permission is not
\* granted as the change is processed, none of the old timers is left.
C26_TimersFollowChanges ==
  [][ /\ EffectStep => \A t \in timers' : t \notin timers /\ t.id >= nextTimer
      /\ (mounted' /\ ~schedDue') => \A t \in timers' : Current(t)
      /\ (EffectStep /\ (pills = <<>> \/ permission # "granted")) => timers' = {}
    ]_vars

\* The intensity was changed after the mount: the timer of the mount is gone
\* and the one armed in its place carries the new intensity
C26_Witness ==
  /\ mounted /\ ~schedDue
  /\ intensity # "normal"
  /\ nextTimer = 3
  /\ \E t \in timers : t.id = 2 /\ t.intensity = intensity

\* C27: after the owning component has unmounted no timer is armed and no
\* notification is delivered any more, the deliveries requested before the
\* unmount and still waiting for the permission answer included.
C27_NothingAfterUnmount ==
  [][ /\ ~mounted' => timers' = {}
      /\ ~mounted => (delivered' = delivered /\ shown' = shown) ]_vars

SchedulePills ==
  {pills[i] : i \in DOMAIN pills}
    \cup {[id |-> nextId, name |-> "B", times |-> tms] : tms \in TimesChoices}
AnswerStep == Len(asking') < Len(asking)

\* C28: when the permission is not granted, showNotification delivers
\* nothing and scheduleForPill arms no timer; each warns and returns, and the
\* armed and the tracked timers are as they were. (showNotification looks at
\* the answer of the browser, scheduleForPill at the permission the hook
\* holds.)
C28_NotGrantedIsNoOp ==
  [][ /\ permission # "granted" =>
           \A pill \in SchedulePills, level \in Intensities :
             scheduleForPill(SchedulerState, pill, level)
               = [SchedulerState EXCEPT !.warned = TRUE]
      /\ (AnswerStep /\ browserPermission' # "granted") =>
           /\ delivered' = delivered /\ shown' = shown
           /\ timers' = timers
           /\ scheduledNotifications' = scheduledNotifications
           /\ warned'
      /\ delivered' # delivered => browserPermission' = "granted"
      /\ (EffectStep /\ permission # "granted" /\ pills # <<>>) =>
           /\ warned' /\ timers' = {} /\ asking' = asking ]_vars

\* The permission was withdrawn with a timer armed and a delivery waiting:
\* the delivery was dropped with a warning
C28_Witness ==
  /\ warned /\ browserPermission = "denied"
  /\ nextTimer = 2 /\ timers # {}
  /\ asking = <<>> /\ delivered = 0

\* C29: the tag depends on the pill name and the scheduled timestamp only:
\* the same name and time give the same tag whatever the intensity and
\* whenever it is computed, two different times of a pill give different
\* tags, and a delivery with the tag of a displayed notification takes its
\* place, so that no two displayed notifications share a tag.
C29_StableTag ==
  /\ \A t1 \in ScheduleInputs, tm \in PillTimes, l1 \in Intensities :
       (Request("A", t1, l1).options.tag
          = Request("A", parseTimeString(tm), intensity).options.tag)
         <=> (epochMs(t1) = epochMs(parseTimeString(tm)))
  /\ \A r \in {asking[i] : i \in DOMAIN asking} :
       \E tm \in PillTimes, d \in 0..now.day :
         r.options.tag = Tag(r.title, [parseTimeString(tm) EXCEPT !.day = d])
  /\ \A n1 \in shown, n2 \in shown : n1.options.tag = n2.options.tag => n1 = n2
  /\ Cardinality(shown) <= delivered

\* Pill B has the time 21:30 twice: both timers fired, both deliveries were
\* made, and one notification is displayed
C29_Witness ==
  /\ delivered = 2
  /\ Cardinality(shown) = 1
  /\ \E n \in shown : n.title = "B"

\* What the intensity asks of the options of a notification
OptionsFor(level, notifOptions) ==
  /\ notifOptions.requireInteraction
  /\ level = "quiet" => notifOptions.silent /\ "vibrate" \notin DOMAIN notifOptions
  /\ level = "normal" =>
       ~notifOptions.silent /\ notifOptions.vibrate = <<200, 100, 200>>
  /\ level = "loud" =>
       ~notifOptions.silent /\ notifOptions.vibrate = <<200, 100, 200, 100, 200>>

\* C30: the silent flag and the vibration pattern of a delivered notification
\* follow from the intensity alone, whatever else the caller passes: quiet is
\* silent without a pattern, normal is audible with [200,100,200], loud is
\* audible with [200,100,200,100,200], and a call without an intensity is
\* treated as normal.
C30_OptionsByIntensity ==
  [][ AnswerStep =>
        LET options == Head(asking).options
            level == IF "intensity" \in DOMAIN options THEN options.intensity
                     ELSE "normal"
        IN  /\ \A n \in shown' \ shown : OptionsFor(level, n.options)
            /\ browserPermission' = "granted" =>
                 \E n \in shown' : n.title = Head(asking).title
                                   /\ OptionsFor(level, n.options) ]_vars

\* A call that asked for quiet was delivered silent and without a pattern
C30_Witness ==
  /\ delivered = 1
  /\ \E n \in shown :
       /\ n.options.silent /\ "vibrate" \notin DOMAIN n.options
       /\ n.title = "Test"

\* ---- persistence
\* C31: when the storage write of a setValue fails, the in-memory value is
\* the one held before the call: a step whose writes all failed leaves
\* pills, logs and lastScheduleDate as they were.
C31_FailedWriteKeepsState ==
  [][ (failsLeft' < failsLeft /\ store' = store)
        => <<pills', logs', lastScheduleDate'>> = <<pills, logs, lastScheduleDate>>
    ]_vars

MountStep(i) == held[i] = Absent /\ held'[i] # Absent
DeliverStep(c) == inbox[c] # <<>> /\ inbox'[c] = Tail(inbox[c])
Unparsable(t) == t # Absent /\ ~parse(t).ok

\* useLocalStorage on malformed data: the default at initialisation, the
\* state kept on a storage event, the failure logged
C32_UseLocalStorage ==
  /\ \A i \in Instances :
       (MountStep(i) /\ Unparsable(settingsItem))
         => held'[i] = <<DEFAULT_SETTINGS>> /\ logged'
  /\ \A c \in Contexts :
       (DeliverStep(c) /\ Unparsable(Head(inbox[c])))
         => /\ held' = held
            /\ (\E i \in Instances : Live(i) /\ contextOf(i) = c) => logged'

\* C32: loading persisted state never throws on malformed stored data, for
\* every persisted key the application reads: at initialisation a text that
\* fails to parse yields the default, a storage event whose new value fails
\* to parse leaves the state unchanged, and both log the failure.
C32_MalformedNeverThrows ==
  [][ /\ ~crashed'
      /\ C32_UseLocalStorage
      /\ (upPills = Absent /\ upPills' # Absent /\ Unparsable(pillsItem))
           => upPills' = <<<<>>>> /\ logged' ]_vars

\* What an instance mounting now would read from the store
ReadBack == initialStored(settingsItem, DEFAULT_SETTINGS).value
Delivered == \A c \in Contexts : inbox[c] = <<>>

\* C33: all observers of a key converge: when no write has failed and every
\* storage event is delivered, every mounted instance of the key, in the
\* same context or in another, holds the value last written to the store
\* (the initial value after a clear).
C33_ObserversConverge ==
  (Delivered /\ failsLeft = MaxFail)
    => \A i \in Instances : Live(i) => held[i] = <<ReadBack>>

\* C36: settings.snoozeMinutes is an integer in 1..60 in every reachable
\* state of every instance of the settings: no operation of useSettings and
\* no storage event takes it outside that range.
C36_SnoozeInRange ==
  \A i \in Instances :
    Live(i) => held[i][1].snoozeMinutes \in 1..60

\* ---- pill operations, second part
\* C34: updatePill(id, partial) changes the id of no pill and keeps the ids
\* unique, whatever fields partial names; every other pill and every log is
\* as it was.
C34_UpdateKeepsIds ==
  [][ Called("updatePill")
        => /\ Len(pills') = Len(rPills)
           /\ \A i \in DOMAIN rPills :
                /\ pills'[i].id = rPills[i].id
                /\ rPills[i].id # lastOp'.id => pills'[i] = rPills[i]
           /\ \A i \in DOMAIN pills', j \in DOMAIN pills' :
                pills'[i].id = pills'[j].id => i = j
           /\ logs' = logs ]_vars

\* C35: a log is created only by a generation pass, and every log a pass
\* creates is scheduled on the calendar date the pass runs on, which becomes
\* the marker: whatever the number of days since the last pass, no log is
\* created for a day on which no pass ran.
C35_OnlyTheDayOfThePass ==
  [][ \A i \in DOMAIN logs' :
        logs'[i].id >= nextId
          => /\ EffectRan
             /\ rLast # Today
             /\ DayOf(logs'[i].scheduledTime) = Today
             /\ lastScheduleDate' = Today
    ]_vars

\* C35 witness: the application was opened two days after the last pass and
\* the pass has run: its logs are all on today, none on the day in between
C35_Witness ==
  /\ ~effectDue
  /\ Today = MaxStreakDay + 2 /\ lastScheduleDate = Today
  /\ Len(logs) > Len(rLogs)
  /\ \A i \in (Len(rLogs) + 1)..Len(logs) :
       DayOf(logs[i].scheduledTime) = Today

\* ---- the two producers of StreakData
\* C38: useStreak and usePillSchedule.streakData report the same current,
\* best and lastTaken for the log list of the render.
C38_SameStreakData == useStreak(rLogs) = streakData(rLogs)

\* The entries of a list that are taken, by the date of a stamp of theirs
TakenOn(ls, field, day) ==
  {i \in DOMAIN ls : ls[i].status = "taken" /\ ls[i][field] # Absent
                      /\ DayOf(ls[i][field]) = day}

\* C39: in the StreakData of both producers best >= current >= 0, and the
\* current streak is at least 1 when the list has an entry taken today.
C39_StreakBounds ==
  \A sd \in {streakData(rLogs), useStreak(rLogs)} :
    /\ sd.best >= sd.current /\ sd.current >= 0
    /\ TakenOn(rLogs, "takenTime", Today) # {} => sd.current >= 1

\* ---- one instance on the key
\* C40: for a single instance whose writes all succeed, once a call was made
\* the state is the value persisted under the key, or the initial value with
\* the key absent; at every moment an instance mounting now would read the
\* state of the instance back.
C40_StateIsPersisted ==
  Live(1) =>
    /\ held[1] = <<ReadBack>>
    /\ opsLeft < MaxOneKeyOps
         => \/ settingsItem = stringify(held[1][1])
            \/ settingsItem = Absent /\ held[1] = <<DEFAULT_SETTINGS>>

\* C40 witness: two updater calls made in one render and then a reset, a
\* direct value or another updater call: all the calls are used up, and the
\* state differs from what the render before the last call showed
C40_Witness ==
  /\ Live(1) /\ opsLeft = 0
  /\ seen[1] # held[1]
  /\ seen[1] # <<DEFAULT_SETTINGS>>
  /\ settingsItem # Absent
  /\ held[1][1].snoozeMinutes = 5

\* ---- two contexts on one store
\* The shared log, and its entries for one pill at one time of today
SharedLog == initialState(store["pill-logs"], <<>>)
SharedPills == initialState(store["pills"], <<>>)
LogsOfEntry(ls, pillId, timeStr) ==
  {i \in DOMAIN ls : /\ ls[i].pillId = pillId
                     /\ ls[i].scheduledTime = formatDateTime(parseTimeString(timeStr))}

\* C37: the shared log holds, for every stored pill and each of its times, at
\* most as many logs of today as the pill lists that time.
C37_OneLogPerEntry ==
  \A p \in DOMAIN SharedPills :
    \A k \in DOMAIN SharedPills[p].times :
      LET pill == SharedPills[p]
      IN  Cardinality(LogsOfEntry(SharedLog, pill.id, pill.times[k]))
            <= Cardinality({j \in DOMAIN pill.times : pill.times[j] = pill.times[k]})

====
